---- MODULE Spec2Model ----
(***************************************************************************)
(* Model of orf.py: the ConversionThread worker (run / stop) and the part  *)
(* of ORFConverterApp that builds and starts it (start_conversion,         *)
(* stop_conversion).                                                       *)
(*                                                                         *)
(* A path is a record [dir, stem]: os.path.dirname(p) is p.dir and         *)
(* Path(p).stem is p.stem.  An output path is the record                   *)
(* [dir |-> output_dir, stem |-> stem] standing for                        *)
(* os.path.join(output_dir, stem + '.jpg').                                *)
(*                                                                         *)
(* The external calls (rawpy decode, imageio.imsave, os.remove) return or  *)
(* raise.  Which of them raises for which item of the job is fixed by the  *)
(* environment variable fault, chosen freely in Init, so that every        *)
(* combination of per-item outcomes is explored and the outcome an item    *)
(* "would have had" is a function of the job and the environment.          *)
(*                                                                         *)
(* Spec     : one run of a prepared job with stop() at any point.          *)
(* FairSpec : Spec with the worker thread scheduled fairly.                *)
(* SpecApp  : the controller editing the list and restarting while the     *)
(*            worker runs (add_files, add_folder, clear_list,              *)
(*            conversion_finished).                                        *)
(* SpecJob  : submitting a job, through start_conversion or by             *)
(*            constructing the thread directly.                            *)
(***************************************************************************)
EXTENDS Integers, Sequences, FiniteSets

\* ------------------------------------------------------------------ bounds
MaxItems == 2
MaxList == 2
MaxRuns == 2
MaxEdits == 2
MaxJobItems == 1

\* ------------------------------------------------------- program constants
\* self.quality_spinbox.setRange(1, 100); self.quality_spinbox.setValue(95)
QualityMin == 1
QualityMax == 100
QualityDefault == 95

\* ------------------------------------------------------------ job universe
Dirs == {"d1", "d2"}
Stems == {"a", "b"}
Paths == {[dir |-> "d1", stem |-> "a"], [dir |-> "d2", stem |-> "a"],
          [dir |-> "d1", stem |-> "b"]}
NoFolder == "None"
OutFolders == {NoFolder, "out"}
OutPaths == [dir : Dirs \cup {"out"}, stem : Stems]
Faults == {"none", "decode", "write", "delete"}

FileLists == UNION {[1..n -> Paths] : n \in 1..MaxItems}

VARIABLES
    file_list,        \* the list object shared by the app and the thread
    output_folder,    \* ORFConverterApp.output_folder (NoFolder = None)
    delete_checkbox,  \* delete_original_checkbox.isChecked()
    btn_start,        \* btn_start.isEnabled()
    btn_stop,         \* btn_stop.isEnabled()
    pc,               \* position of the worker; "none": no thread object
    is_running,       \* ConversionThread.is_running
    output_dir,       \* ConversionThread.output_dir
    delete_original,  \* ConversionThread.delete_original
    total_files,      \* local of run
    successful,       \* local of run
    it,               \* position of the list iterator behind enumerate
    i,                \* loop variable i of run (0-based)
    file_path,        \* loop variable file_path of run
    exists,           \* source files present on disk
    written,          \* output path -> 1-based item whose image it holds, 0: absent
    fault,            \* environment: which call raises for the k-th item
    events,           \* signals emitted by the worker, in order
    ops,              \* external calls attempted by the worker, in order
    entered,          \* number of items let past the is_running check
    stop_k,           \* 0, or k when stop() was first called before the
                      \* is_running check of item k (1-based)
    stop_pc,          \* position of the worker when stop() was first called
    job_items,        \* the item sequence the thread was constructed with
    quality,          \* ConversionThread.quality
    via,              \* who constructed the thread: "none", "app", "direct"
    runs,             \* number of threads started so far
    quality_spinbox,  \* quality_spinbox.value()
    mkdir_fails,      \* environment: os.makedirs(output_folder) raises
    gui_waiting,      \* the GUI thread is blocked in conversion_thread.wait()
    pending_finished, \* finished_signal emissions queued for the GUI thread
    lingering,        \* replaced thread objects still executing run()
    refused,          \* "", or why start_conversion last returned early
    edits             \* number of changes the controller made to the list

vars == <<file_list, output_folder, delete_checkbox, btn_start, btn_stop, pc,
          is_running, output_dir, delete_original, total_files, successful,
          it, i, file_path, exists, written, fault, events, ops, entered,
          stop_k, stop_pc, job_items, quality, via, runs, quality_spinbox,
          mkdir_fails, gui_waiting, pending_finished, lingering, refused,
          edits>>

gui == <<output_folder, delete_checkbox>>
locals == <<total_files, successful, it, i, file_path>>
disk == <<exists, written>>
job == <<job_items, quality, via, runs>>
app_cfg == <<quality_spinbox, mkdir_fails, edits>>
app == <<app_cfg, gui_waiting, pending_finished, lingering, refused>>

\* ------------------------------------------------------------- pure helpers
NoPath == [dir |-> "", stem |-> ""]

Range(s) == {s[k] : k \in DOMAIN s}

\* os.path.dirname(path)
dirname(p) == p.dir

\* os.path.join(output_dir, Path(file_path).stem + '.jpg')
output_path(dir, p) == [dir |-> dir, stem |-> p.stem]

\* variant: the percentage is taken of i instead of i + 1
PercentOfIndex(k, n) == ((k - 1) * 100) \div n

\* int((i + 1) / total_files * 100) for total_files > 0; the float expression
\* agrees with the integer quotient for every total_files up to 7
Percent(k, n) == (k * 100) \div n

Event(kind, item, val, total) ==
    [kind |-> kind, item |-> item, val |-> val, total |-> total]

Emit(e) == events' = Append(events, e)

Op(name, path, ok) ==
    ops' = Append(ops, [op |-> name, item |-> i + 1, path |-> path, ok |-> ok])

\* ---------------------------------------------------------------- initial
Init ==
    /\ file_list \in FileLists
    /\ output_folder \in OutFolders
    /\ delete_checkbox \in BOOLEAN
    /\ btn_start = TRUE
    /\ btn_stop = FALSE
    /\ pc = "none"
    /\ is_running = FALSE
    /\ output_dir = NoFolder
    /\ delete_original = FALSE
    /\ total_files = 0
    /\ successful = 0
    /\ it = 0
    /\ i = 0
    /\ file_path = NoPath
    /\ exists = Range(file_list)
    /\ written = [o \in OutPaths |-> 0]
    /\ fault \in [DOMAIN file_list -> Faults]
    /\ events = <<>>
    /\ ops = <<>>
    /\ entered = 0
    /\ stop_k = 0
    /\ stop_pc = ""
    /\ job_items = <<>>
    /\ quality = 0
    /\ via = "none"
    /\ runs = 0
    /\ quality_spinbox = QualityDefault
    /\ mkdir_fails = FALSE
    /\ gui_waiting = FALSE
    /\ pending_finished = 0
    /\ lingering = <<>>
    /\ refused = ""
    /\ edits = 0

\* ------------------------------------------------------- ORFConverterApp
\* output_dir if output_dir else os.path.dirname(self.file_list[0])
EffectiveOutputDir ==
    IF output_folder # NoFolder THEN output_folder ELSE dirname(file_list[1])

\* variant: the list is looked at only when no output folder is chosen
CanStartWithFolder == file_list # <<>> \/ output_folder # NoFolder

\* if not self.file_list: QMessageBox.warning(...); return
CanStart == file_list # <<>>

\* variant: the error of os.makedirs is swallowed
MakedirsIgnored == TRUE

\* os.makedirs(output_dir, exist_ok=True) returns (only with a folder chosen)
MakedirsOk == output_folder = NoFolder \/ ~mkdir_fails

\* ConversionThread.__init__: the list is stored by reference, so the
\* thread's file_list and the list handed in are one object
ConversionThread_init(fl, od, q, del) ==
    /\ file_list' = fl
    /\ output_dir' = od
    /\ quality' = q
    /\ delete_original' = del
    /\ is_running' = TRUE
    /\ job_items' = fl

\* a thread object replaced while it is between line 64 and line 65 goes on
\* executing run(): the frame of run keeps the object alive
Replaced ==
    IF pc = "summary"
    THEN Append(lingering, [successful |-> successful, total_files |-> total_files])
    ELSE lingering

start_conversion ==
    /\ btn_start
    /\ ~gui_waiting
    /\ pc \in {"none", "summary", "done"}
    /\ runs < MaxRuns
    /\ CanStart
    /\ MakedirsOk
    /\ ConversionThread_init(file_list, EffectiveOutputDir, quality_spinbox,
                             delete_checkbox)
    /\ lingering' = Replaced
    /\ via' = "app"
    /\ runs' = runs + 1
    /\ btn_start' = FALSE
    /\ btn_stop' = TRUE
    /\ pc' = "ready"
    /\ entered' = 0
    /\ stop_k' = 0
    /\ stop_pc' = ""
    /\ UNCHANGED <<gui, locals, disk, fault, events, ops, app_cfg, gui_waiting,
                   pending_finished, refused>>

\* start_conversion with an empty list: warning box, return
start_conversion_empty ==
    /\ btn_start
    /\ ~gui_waiting
    /\ ~CanStart
    /\ refused' = "empty"
    /\ UNCHANGED <<file_list, gui, btn_start, btn_stop, pc, is_running,
                   output_dir, delete_original, locals, disk, fault, events,
                   ops, entered, stop_k, stop_pc, job, app_cfg, gui_waiting,
                   pending_finished, lingering>>

\* start_conversion when os.makedirs raises: the exception leaves the slot
\* before the thread is constructed
start_conversion_makedirs ==
    /\ btn_start
    /\ ~gui_waiting
    /\ CanStart
    /\ ~MakedirsOk
    /\ refused' = "makedirs"
    /\ UNCHANGED <<file_list, gui, btn_start, btn_stop, pc, is_running,
                   output_dir, delete_original, locals, disk, fault, events,
                   ops, entered, stop_k, stop_pc, job, app_cfg, gui_waiting,
                   pending_finished, lingering>>

\* isRunning(): start() was called and run() has not returned
isRunning == pc \notin {"none", "done"}

stop ==
    /\ is_running' = FALSE
    /\ stop_k' = IF stop_k = 0 THEN entered + 1 ELSE stop_k
    /\ stop_pc' = IF stop_k = 0 THEN pc ELSE stop_pc

stop_conversion ==
    /\ btn_stop
    /\ ~gui_waiting
    /\ isRunning
    /\ stop
    /\ gui_waiting' = TRUE
    /\ UNCHANGED <<file_list, gui, btn_start, btn_stop, pc, output_dir,
                   delete_original, locals, disk, fault, events, ops, entered,
                   job, app_cfg, pending_finished, lingering, refused>>

\* self.conversion_thread.wait() returns once run() has returned
wait_returns ==
    /\ gui_waiting
    /\ pc = "done"
    /\ gui_waiting' = FALSE
    /\ UNCHANGED <<file_list, gui, btn_start, btn_stop, pc, is_running,
                   output_dir, delete_original, locals, disk, fault, events,
                   ops, entered, stop_k, stop_pc, job, app_cfg,
                   pending_finished, lingering, refused>>

\* ------------------------------------------------- ConversionThread.run
run_begin ==
    /\ pc = "ready"
    /\ total_files' = Len(file_list)
    /\ successful' = 0
    /\ it' = 0
    /\ pc' = "loop"
    /\ UNCHANGED <<file_list, gui, btn_start, btn_stop, is_running, output_dir,
                   delete_original, i, file_path, disk, fault, events, ops,
                   entered, stop_k, stop_pc, job, app>>

\* variant: the loop never looks at is_running
LoopIgnoresStop == TRUE

\* if not self.is_running: break   (the negation of the break condition)
LoopContinues == is_running

\* variant: return instead of break
BreakReturns == "done"

\* where break leaves the loop: the statement after the for
BreakTarget == "finish"

\* for i, file_path in enumerate(self.file_list): if not self.is_running: break
run_next ==
    /\ pc = "loop"
    /\ IF it < Len(file_list)
       THEN /\ i' = it
            /\ file_path' = file_list[it + 1]
            /\ it' = it + 1
            /\ IF LoopContinues
               THEN pc' = "log" /\ entered' = entered + 1
               ELSE pc' = BreakTarget /\ UNCHANGED entered
       ELSE /\ pc' = "finish"
            /\ UNCHANGED <<i, file_path, it, entered>>
    /\ UNCHANGED <<file_list, gui, btn_start, btn_stop, is_running, output_dir,
                   delete_original, total_files, successful, disk, fault,
                   events, ops, stop_k, stop_pc, job, app>>

\* self.log_message.emit(f"Конвертация: ...")
run_log ==
    /\ pc = "log"
    /\ Emit(Event("Started", i + 1, 0, 0))
    /\ pc' = "decode"
    /\ UNCHANGED <<file_list, gui, btn_start, btn_stop, is_running, output_dir,
                   delete_original, locals, disk, fault, ops, entered,
                   stop_k, stop_pc, job, app>>

\* variant: the exception is swallowed without a message
except_silent ==
    /\ UNCHANGED events
    /\ pc' = "progress"

\* variant: the try statement encloses the loop, a failure ends the batch
except_abort ==
    /\ Emit(Event("Failed", i + 1, 0, 0))
    /\ pc' = "finish"

\* except Exception as e: self.log_message.emit(f"❌ Ошибка ...")
except_handler ==
    /\ Emit(Event("Failed", i + 1, 0, 0))
    /\ pc' = "progress"

\* the call that raises for the k-th item fetched; none beyond the items
\* the environment was drawn for
FaultAt(k) == IF k \in DOMAIN fault THEN fault[k] ELSE "none"

\* variant: a cancellation request interrupts the decode in flight
DecodeOkUnlessStopped ==
    is_running /\ file_path \in exists /\ FaultAt(i + 1) # "decode"

\* rawpy.imread(file_path) / raw.postprocess() return
DecodeOk == file_path \in exists /\ FaultAt(i + 1) # "decode"

\* imageio.imsave(output_path, rgb, quality=...) returns
WriteOk == FaultAt(i + 1) # "write"

\* os.remove(file_path) returns
DeleteOk == file_path \in exists /\ FaultAt(i + 1) # "delete"

run_decode ==
    /\ pc = "decode"
    /\ Op("decode", file_path, DecodeOk)
    /\ IF DecodeOk
       THEN pc' = "save" /\ UNCHANGED events
       ELSE except_handler
    /\ UNCHANGED <<file_list, gui, btn_start, btn_stop, is_running, output_dir,
                   delete_original, locals, disk, fault, entered,
                   stop_k, stop_pc, job, app>>

\* variant: the original is removed whatever the flag says
AfterSaveAlwaysDelete == "delete"

\* if self.delete_original: ...
AfterSave == IF delete_original THEN "delete" ELSE "success"

\* variant: an existing output file is left as it is
WriteFileKeep(o) ==
    IF written[o] # 0 THEN written ELSE [written EXCEPT ![o] = i + 1]

\* imageio.imsave creates or replaces the file at output_path
WriteFile(o) == [written EXCEPT ![o] = i + 1]

run_save ==
    /\ pc = "save"
    /\ Op("write", output_path(output_dir, file_path), WriteOk)
    /\ IF WriteOk
       THEN /\ written' = WriteFile(output_path(output_dir, file_path))
            /\ successful' = successful + 1
            /\ pc' = AfterSave
            /\ UNCHANGED events
       ELSE /\ except_handler
            /\ UNCHANGED <<written, successful>>
    /\ UNCHANGED <<file_list, gui, btn_start, btn_stop, is_running, output_dir,
                   delete_original, total_files, it, i, file_path, exists,
                   fault, entered,
                   stop_k, stop_pc, job, app>>

\* os.remove(file_path); self.log_message.emit(f"Удален оригинал: ...")
run_delete ==
    /\ pc = "delete"
    /\ Op("delete", file_path, DeleteOk)
    /\ IF DeleteOk
       THEN /\ exists' = exists \ {file_path}
            /\ Emit(Event("Deleted", i + 1, 0, 0))
            /\ pc' = "success"
       ELSE /\ except_handler
            /\ UNCHANGED exists
    /\ UNCHANGED <<file_list, gui, btn_start, btn_stop, is_running, output_dir,
                   delete_original, locals, written, fault, entered,
                   stop_k, stop_pc, job, app>>

\* variant: the progress update sits in the except branch only
run_success_no_progress ==
    /\ pc = "success"
    /\ Emit(Event("Succeeded", i + 1, 0, 0))
    /\ pc' = "loop"
    /\ UNCHANGED <<file_list, gui, btn_start, btn_stop, is_running, output_dir,
                   delete_original, locals, disk, fault, ops, entered,
                   stop_k, stop_pc, job, app>>

\* self.log_message.emit(f"✅ Успешно: ...")
run_success ==
    /\ pc = "success"
    /\ Emit(Event("Succeeded", i + 1, 0, 0))
    /\ pc' = "progress"
    /\ UNCHANGED <<file_list, gui, btn_start, btn_stop, is_running, output_dir,
                   delete_original, locals, disk, fault, ops, entered,
                   stop_k, stop_pc, job, app>>

\* progress = int((i + 1) / total_files * 100); self.progress.emit(progress)
run_progress ==
    /\ pc = "progress"
    /\ total_files > 0
    /\ Emit(Event("Progress", 0, Percent(i + 1, total_files), 0))
    /\ pc' = "loop"
    /\ UNCHANGED <<file_list, gui, btn_start, btn_stop, is_running, output_dir,
                   delete_original, locals, disk, fault, ops, entered,
                   stop_k, stop_pc, job, app>>

\* self.finished_signal.emit(True)
run_finish ==
    /\ pc = "finish"
    /\ Emit(Event("Finished", 0, 1, 0))
    /\ pending_finished' = pending_finished + 1
    /\ pc' = "summary"
    /\ UNCHANGED <<file_list, gui, btn_start, btn_stop, is_running, output_dir,
                   delete_original, locals, disk, fault, ops, entered, stop_k,
                   stop_pc, job, app_cfg, gui_waiting, lingering, refused>>

\* self.log_message.emit(f"Конвертация завершена! Успешно: {successful}/{total_files}")
run_summary ==
    /\ pc = "summary"
    /\ Emit(Event("Summary", 0, successful, total_files))
    /\ pc' = "done"
    /\ UNCHANGED <<file_list, gui, btn_start, btn_stop, is_running, output_dir,
                   delete_original, locals, disk, fault, ops, entered,
                   stop_k, stop_pc, job, app>>

\* one step of ConversionThread.run
run ==
    \/ run_begin
    \/ run_next
    \/ run_log
    \/ run_decode
    \/ run_save
    \/ run_delete
    \/ run_success
    \/ run_progress
    \/ run_finish
    \/ run_summary

Next ==
    \/ start_conversion
    \/ stop_conversion
    \/ wait_returns
    \/ run

Spec == Init /\ [][Next]_vars

\* the worker thread, once started, keeps being scheduled until run returns
FairSpec == Spec /\ WF_vars(run)

\* ===================================================================
\* The controller acting while a run is in progress
\* ===================================================================
\* files the dialogs can offer: those the worker has not removed
OnDisk ==
    Paths \ {ops[k].path : k \in {m \in DOMAIN ops : ops[m].op = "delete" /\ ops[m].ok}}

\* self.file_list.extend(files): the list object is changed in place
extend(files) == file_list' = file_list \o files

\* add_files: the dialog returns a non-empty selection
add_files ==
    /\ ~gui_waiting
    /\ edits < MaxEdits
    /\ edits' = edits + 1
    /\ \E f \in OnDisk :
           /\ Len(file_list) + 1 <= MaxList
           /\ extend(<<f>>)
           /\ exists' = exists \cup {f}
    /\ UNCHANGED <<gui, btn_start, btn_stop, pc, is_running, output_dir,
                   delete_original, locals, written, fault, events, ops,
                   entered, stop_k, stop_pc, job, quality_spinbox,
                   mkdir_fails, gui_waiting, pending_finished, lingering,
                   refused>>

\* the files Path(folder).rglob finds, in some order
FolderListings(folder) ==
    LET F == {f \in OnDisk : f.dir = folder}
    IN  {q \in UNION {[1..n -> F] : n \in 0..Cardinality(F)} :
            Len(q) = Cardinality(F) /\ Range(q) = F}

\* add_folder: a folder holding ORF files is chosen
add_folder ==
    /\ ~gui_waiting
    /\ edits < MaxEdits
    /\ edits' = edits + 1
    /\ \E folder \in Dirs :
           \E orf_files \in FolderListings(folder) :
               /\ orf_files # <<>>
               /\ Len(file_list) + Len(orf_files) <= MaxList
               /\ extend(orf_files)
               /\ exists' = exists \cup Range(orf_files)
    /\ UNCHANGED <<gui, btn_start, btn_stop, pc, is_running, output_dir,
                   delete_original, locals, written, fault, events, ops,
                   entered, stop_k, stop_pc, job, quality_spinbox,
                   mkdir_fails, gui_waiting, pending_finished, lingering,
                   refused>>

\* self.file_list.clear()
clear_list ==
    /\ ~gui_waiting
    /\ edits < MaxEdits
    /\ edits' = edits + 1
    /\ file_list # <<>>
    /\ file_list' = <<>>
    /\ UNCHANGED <<gui, btn_start, btn_stop, pc, is_running, output_dir,
                   delete_original, locals, disk, fault, events, ops, entered,
                   stop_k, stop_pc, job, quality_spinbox, mkdir_fails,
                   gui_waiting, pending_finished, lingering, refused>>

\* the slot connected to finished_signal, run by the GUI thread's event loop
conversion_finished ==
    /\ ~gui_waiting
    /\ pending_finished > 0
    /\ pending_finished' = pending_finished - 1
    /\ btn_start' = TRUE
    /\ btn_stop' = FALSE
    /\ UNCHANGED <<file_list, gui, pc, is_running, output_dir, delete_original,
                   locals, disk, fault, events, ops, entered, stop_k, stop_pc,
                   job, app_cfg, gui_waiting, lingering, refused>>

\* line 65 executed by a thread object that was replaced meanwhile
lingering_summary ==
    /\ lingering # <<>>
    /\ Emit(Event("Summary", 0, Head(lingering).successful,
                  Head(lingering).total_files))
    /\ lingering' = Tail(lingering)
    /\ UNCHANGED <<file_list, gui, btn_start, btn_stop, pc, is_running,
                   output_dir, delete_original, locals, disk, fault, ops,
                   entered, stop_k, stop_pc, job, app_cfg, gui_waiting,
                   pending_finished, refused>>

\* (i + 1) / total_files raises ZeroDivisionError outside the inner try:
\* except Exception as e: self.log_message.emit(f"Критическая ошибка: ...")
run_critical ==
    /\ pc = "progress"
    /\ total_files = 0
    /\ Emit(Event("Critical", 0, 0, 0))
    /\ pc' = "fail"
    /\ UNCHANGED <<file_list, gui, btn_start, btn_stop, is_running, output_dir,
                   delete_original, locals, disk, fault, ops, entered,
                   stop_k, stop_pc, job, app>>

\* self.finished_signal.emit(False)
run_fail ==
    /\ pc = "fail"
    /\ Emit(Event("Finished", 0, 0, 0))
    /\ pending_finished' = pending_finished + 1
    /\ pc' = "done"
    /\ UNCHANGED <<file_list, gui, btn_start, btn_stop, is_running, output_dir,
                   delete_original, locals, disk, fault, ops, entered, stop_k,
                   stop_pc, job, app_cfg, gui_waiting, lingering, refused>>

\* the application after construction, with the settings the user made
\* before the first run; every file of the universe is on disk and no
\* external call fails on its own account
InitApp ==
    /\ file_list \in {<<>>} \cup [1..1 -> Paths]
    /\ output_folder \in OutFolders
    /\ delete_checkbox \in BOOLEAN
    /\ btn_start = TRUE
    /\ btn_stop = FALSE
    /\ pc = "none"
    /\ is_running = FALSE
    /\ output_dir = NoFolder
    /\ delete_original = FALSE
    /\ total_files = 0
    /\ successful = 0
    /\ it = 0
    /\ i = 0
    /\ file_path = NoPath
    /\ exists = Paths
    /\ written = [o \in OutPaths |-> 0]
    /\ fault = <<>>
    /\ events = <<>>
    /\ ops = <<>>
    /\ entered = 0
    /\ stop_k = 0
    /\ stop_pc = ""
    /\ job_items = <<>>
    /\ quality = 0
    /\ via = "none"
    /\ runs = 0
    /\ quality_spinbox = QualityDefault
    /\ mkdir_fails = FALSE
    /\ gui_waiting = FALSE
    /\ pending_finished = 0
    /\ lingering = <<>>
    /\ refused = ""
    /\ edits = 0

NextApp ==
    \/ add_files
    \/ add_folder
    \/ clear_list
    \/ start_conversion
    \/ start_conversion_empty
    \/ stop_conversion
    \/ wait_returns
    \/ conversion_finished
    \/ run
    \/ run_critical
    \/ run_fail
    \/ lingering_summary

SpecApp == InitApp /\ [][NextApp]_vars

\* ===================================================================
\* Submitting a job: through the controller, or by constructing the thread
\* ===================================================================
\* values a caller may ask for, inside and outside the accepted range
QualityRequests == {QualityMin - 1, QualityMin, QualityMax, QualityMax + 1}

\* QSpinBox with setRange(1, 100): a value outside the range is clamped
SpinBoxValue(v) ==
    IF v < QualityMin THEN QualityMin
    ELSE IF v > QualityMax THEN QualityMax ELSE v

\* the user edits the quality spin box
set_quality ==
    /\ ~gui_waiting
    /\ via = "none"
    /\ \E v \in QualityRequests :
           /\ SpinBoxValue(v) # quality_spinbox
           /\ quality_spinbox' = SpinBoxValue(v)
    /\ UNCHANGED <<file_list, gui, btn_start, btn_stop, pc, is_running,
                   output_dir, delete_original, locals, disk, fault, events,
                   ops, entered, stop_k, stop_pc, job, mkdir_fails, edits,
                   gui_waiting, pending_finished, lingering, refused>>

\* ConversionThread(fl, od, q, del).start() by a caller other than the
\* controller, while no other thread is running
thread_direct ==
    /\ via = "none"
    /\ pc = "none"
    /\ \E fl \in {file_list, <<>>}, q \in QualityRequests :
           ConversionThread_init(fl, "out", q, delete_checkbox)
    /\ via' = "direct"
    /\ runs' = runs + 1
    /\ pc' = "ready"
    /\ UNCHANGED <<gui, btn_start, btn_stop, locals, disk, fault, events, ops,
                   entered, stop_k, stop_pc, app>>

\* a job the user prepared, in an environment where creating the output
\* folder may fail
InitJob ==
    /\ file_list \in UNION {[1..n -> Paths] : n \in 0..MaxJobItems}
    /\ output_folder \in OutFolders
    /\ delete_checkbox \in BOOLEAN
    /\ btn_start = TRUE
    /\ btn_stop = FALSE
    /\ pc = "none"
    /\ is_running = FALSE
    /\ output_dir = NoFolder
    /\ delete_original = FALSE
    /\ total_files = 0
    /\ successful = 0
    /\ it = 0
    /\ i = 0
    /\ file_path = NoPath
    /\ exists = Range(file_list)
    /\ written = [o \in OutPaths |-> 0]
    /\ fault \in [DOMAIN file_list -> Faults]
    /\ events = <<>>
    /\ ops = <<>>
    /\ entered = 0
    /\ stop_k = 0
    /\ stop_pc = ""
    /\ job_items = <<>>
    /\ quality = 0
    /\ via = "none"
    /\ runs = 0
    /\ quality_spinbox = QualityDefault
    /\ mkdir_fails \in BOOLEAN
    /\ gui_waiting = FALSE
    /\ pending_finished = 0
    /\ lingering = <<>>
    /\ refused = ""
    /\ edits = 0

NextJob ==
    \/ set_quality
    \/ start_conversion
    \/ start_conversion_empty
    \/ start_conversion_makedirs
    \/ thread_direct
    \/ stop_conversion
    \/ wait_returns
    \/ run

SpecJob == InitJob /\ [][NextJob]_vars

\* ===================================================================
\* Properties
\* ===================================================================
NItems == Len(file_list)

Idx(kind) == {k \in DOMAIN events : events[k].kind = kind}

Count(kind) == Cardinality(Idx(kind))

ItemIdx(kind, j) == {k \in Idx(kind) : events[k].item = j}

TerminalCount == Count("Succeeded") + Count("Failed") + Count("Skipped")

FinishedEmitted == Idx("Finished") # {}

LoopOver == pc \in {"finish", "summary", "done"}

IsProgress(e) == e.kind = "Progress"

ProgressEvents == SelectSeq(events, IsProgress)

IsItemEvent(e) == e.kind \in {"Started", "Succeeded", "Failed", "Skipped", "Progress"}

ItemEvents == SelectSeq(events, IsItemEvent)

\* items for which a decode or an encode/write call raised
FailedItems ==
    {ops[k].item : k \in {m \in DOMAIN ops : ops[m].op \in {"decode", "write"} /\ ~ops[m].ok}}

\* The outcome of item j in the run of the same job, in the same environment,
\* in which stop() is never called.
RECURSIVE ExistsBefore(_)
RECURSIVE NaturalSucceeds(_)
NaturalSucceeds(j) ==
    /\ file_list[j] \in ExistsBefore(j)
    /\ fault[j] # "decode"
    /\ fault[j] # "write"
    /\ delete_checkbox => fault[j] # "delete"

ExistsBefore(j) ==
    IF j = 1 THEN Range(file_list)
    ELSE IF delete_checkbox /\ NaturalSucceeds(j - 1)
         THEN ExistsBefore(j - 1) \ {file_list[j - 1]}
         ELSE ExistsBefore(j - 1)

NaturalOutcome(j) == IF NaturalSucceeds(j) THEN "Succeeded" ELSE "Failed"

C3_Original == \A k \in Idx("Finished") : k = Len(events)

\* C4: every started run eventually emits the batch-finished event and emits
\* it exactly once, cancelled or not and whatever items fail.
C4_FinishedOnce ==
    /\ [](Count("Finished") <= 1)
    /\ (pc = "ready") ~> (Count("Finished") = 1)

C4_Witness ==
    /\ pc = "done"
    /\ Count("Finished") = 1
    /\ stop_k \in 1..NItems
    /\ Count("Failed") >= 1

\* C5: a decode or encode/write failure on item j produces exactly one Failed
\* event for item j and no Succeeded one, never produces
\* finished_signal(False), and the loop ends right after item j with items
\* left only if cancellation was requested.
C5_FailureIsolated ==
    /\ \A j \in FailedItems :
           /\ Cardinality(ItemIdx("Failed", j)) = 1
           /\ ItemIdx("Succeeded", j) = {}
           /\ (LoopOver /\ entered = j /\ j < NItems) => ~is_running
    /\ \A k \in Idx("Finished") : events[k].val = 1

C5_Witness ==
    /\ 1 \in FailedItems
    /\ ItemIdx("Started", 2) # {}
    /\ is_running

C7_Original ==
    \A k \in DOMAIN ops :
        (ops[k].op = "delete" /\ ~ops[k].ok) =>
            /\ ItemIdx("Failed", ops[k].item) = {}
            /\ LoopOver => ItemIdx("Succeeded", ops[k].item) # {}

\* C8: with no output folder chosen, every item's output is written into the
\* parent directory of that item's own source file.
C8_Original ==
    output_folder = NoFolder =>
        \A k \in DOMAIN ops :
            ops[k].op = "write" =>
                ops[k].path.dir = dirname(file_list[ops[k].item])

\* the Progress values never decrease
ProgressMonotone ==
    \A a, b \in DOMAIN ProgressEvents :
        a < b => ProgressEvents[a].val <= ProgressEvents[b].val

C10_ItemOrder ==
    /\ \A k \in DOMAIN ItemEvents :
           LET j == ((k - 1) \div 3) + 1
               e == ItemEvents[k]
           IN  /\ (k - 1) % 3 = 0 => (e.kind = "Started" /\ e.item = j)
               /\ (k - 1) % 3 = 1 =>
                      (e.kind \in {"Succeeded", "Failed", "Skipped"} /\ e.item = j)
               /\ (k - 1) % 3 = 2 => e.kind = "Progress"
    /\ (pc = "loop" \/ LoopOver) => Len(ItemEvents) = 3 * entered
    /\ \A a, b \in DOMAIN events :
           (a < b /\ events[a].item > 0 /\ events[b].item > 0) =>
               events[a].item <= events[b].item

C10_Witness ==
    /\ Len(ItemEvents) = 6
    /\ Count("Deleted") >= 1
    /\ Count("Failed") >= 1
    /\ Count("Succeeded") >= 1

\* positions of the worker inside the body of the loop, an item in flight
InFlight == {"log", "decode", "save", "delete", "success", "progress"}

\* the item whose image the last successful write to o stored, 0 if none
LastWriter(o) ==
    LET K == {k \in DOMAIN ops : ops[k].op = "write" /\ ops[k].ok /\ ops[k].path = o}
    IN  IF K = {} THEN 0
        ELSE ops[CHOOSE k \in K : \A m \in K : m <= k].item

\* C16: two items with the same base name and destination are both
\* processed, the later write replaces the earlier output, and the file at
\* an output path holds the result of the last item whose write succeeded.
C16_LastWriteWins ==
    /\ \A o \in OutPaths : written[o] = LastWriter(o)
    /\ (pc = "loop" \/ LoopOver) =>
           \A j \in 1..entered :
               /\ Cardinality({k \in DOMAIN ops :
                                  ops[k].op = "decode" /\ ops[k].item = j}) = 1
               /\ Cardinality(ItemIdx("Succeeded", j) \cup ItemIdx("Failed", j)) = 1

C16_Witness ==
    /\ LoopOver
    /\ \E a, b \in DOMAIN ops :
           /\ a < b
           /\ ops[a].op = "write" /\ ops[a].ok
           /\ ops[b].op = "write" /\ ops[b].ok
           /\ ops[a].path = ops[b].path
           /\ file_list[ops[a].item] # file_list[ops[b].item]
           /\ written[ops[a].path] = ops[b].item

\* C17: when stop() is called while item j is in flight, item j still
\* yields the terminal event and the Progress event of the run without
\* cancellation, and no later item is started.
C17_BoundaryOnly ==
    stop_pc \in InFlight =>
        /\ entered = stop_k - 1
        /\ \A n \in DOMAIN events : events[n].item < stop_k
        /\ (pc = "loop" \/ LoopOver) =>
               /\ Cardinality(ItemIdx(NaturalOutcome(stop_k - 1), stop_k - 1)) = 1
               /\ Cardinality(ItemIdx("Succeeded", stop_k - 1)
                              \cup ItemIdx("Failed", stop_k - 1)) = 1
               /\ Len(ProgressEvents) = stop_k - 1
               /\ ProgressEvents[stop_k - 1].val = ((stop_k - 1) * 100) \div NItems

C17_Witness ==
    /\ stop_pc = "decode"
    /\ LoopOver
    /\ NItems = 2
    /\ stop_k = 2
    /\ ItemIdx("Succeeded", 1) # {}

\* C18: the successCount of the summary equals the number of Succeeded
\* events of the run, and its totalCount the number of items of the job.
C18_Original ==
    \A k \in Idx("Summary") :
        /\ events[k].val = Count("Succeeded")
        /\ events[k].total = NItems

\* C11: while a run is in progress the item sequence the worker iterates is
\* the one the job was constructed with, whatever the controller does.
C11_Original == isRunning => file_list = job_items

\* C14: every Progress value emitted lies in 0..100.
C14_Original ==
    \A k \in Idx("Progress") : events[k].val \in 0..100

\* number of thread objects executing run()
Executing == (IF isRunning THEN 1 ELSE 0) + Len(lingering)

\* C15: at most one worker is executing run() at any time.
C15_Original == Executing <= 1

QualityRange == QualityMin..QualityMax

C13_MakedirsAborts ==
    (output_folder # NoFolder /\ mkdir_fails) =>
        /\ via # "app"
        /\ via = "none" =>
               /\ pc = "none"
               /\ events = <<>>
               /\ ops = <<>>
               /\ btn_start
               /\ ~btn_stop

C13_Witness ==
    /\ refused = "makedirs"
    /\ via = "none"
    /\ file_list # <<>>
    /\ events = <<>>
====
